---- MODULE Spec2Model ----
(***************************************************************************)
(* Model of src/app.py: the client-identifier / image reconciliation run   *)
(* (process_images and the functions it calls).                            *)
(*                                                                         *)
(* Python strings that the code inspects character by character (file      *)
(* names, identifiers, the table path) are sequences of one-character      *)
(* strings.  Directory paths are opaque strings.  The file system and the  *)
(* table file are the environment: what a call reads is drawn from small   *)
(* sets.  Environment I/O faults (a copy or a write that raises) are not   *)
(* modelled; the faults modelled are those the code raises by itself.      *)
(***************************************************************************)
EXTENDS Integers, Sequences, FiniteSets, TLC

VARIABLES
    pc,                     \* position inside process_images
    excel_path,             \* argument: path of the input table
    excel_file,             \* environment: content of the file at excel_path
    fallback_images_dir,    \* argument: fallback directory path, None or ""
    excel_df,               \* the ClientID column of the loaded table
    client_ids,             \* set of normalized identifiers
    matched_images,         \* primary-pass matched names
    mismatched_images,      \* primary-pass mismatched names
    matched_image_count,    \* the tally (dict identifier -> count)
    unmatched_client_ids,   \* identifiers with zero primary tally
    calls,                  \* history of match_images_with_client_ids calls
    out_created,            \* the output directory has been created
    out_files,              \* files in the output directory: {[name, from]}
    written,                \* the table persisted by update_excel_with_status
    returned,               \* return value of process_images
    raised,                 \* exception propagating out of process_images
    messages                \* st.error / st.write / st.success reports

vars == <<pc, excel_path, excel_file, fallback_images_dir, excel_df,
          client_ids, matched_images, mismatched_images, matched_image_count,
          unmatched_client_ids, calls, out_created, out_files, written,
          returned, raised, messages>>

---------------------------------------------------------------------------
(* Bounds of the model *)

MaxRows == 2
MaxEntries == 2
MaxFallbackEntries == 1

(* Program constant: width of a normalized identifier (zfill(11)) *)
IdWidth == 11

---------------------------------------------------------------------------
(* Python values *)

None == "<None>"

EmptyDict == <<>>

Digits == {"0", "1", "2", "3", "4", "5", "6", "7", "8", "9"}

DigitChar(d) == <<"0", "1", "2", "3", "4", "5", "6", "7", "8", "9">>[d + 1]

Min(S) == CHOOSE x \in S : \A y \in S : x <= y

\* str(n) for an integer cell
RECURSIVE IntToStr(_)
IntToStr(n) ==
    IF n < 0 THEN <<"-">> \o IntToStr(0 - n)
    ELSE IF n < 10 THEN <<DigitChar(n)>>
    ELSE IntToStr(n \div 10) \o <<DigitChar(n % 10)>>

\* str(x) of a table cell (astype(str))
CellToStr(cell) == IF cell.type = "int" THEN IntToStr(cell.int) ELSE cell.text

Zeros(n) == [i \in 1..n |-> "0"]

\* str.zfill(width): pads on the left, after a leading sign; never truncates
zfill(s, width) ==
    IF Len(s) >= width THEN s
    ELSE IF Len(s) > 0 /\ s[1] \in {"+", "-"}
         THEN <<s[1]>> \o Zeros(width - Len(s)) \o Tail(s)
         ELSE Zeros(width - Len(s)) \o s

\* file_name.split('_')[0]
SplitFirst(s) ==
    LET idx == {i \in 1..Len(s) : s[i] = "_"}
    IN  IF idx = {} THEN s ELSE SubSeq(s, 1, Min(idx) - 1)

\* the group matched by re.match(r'(\d+)', s): the greedy digit run at the
\* start of s; the empty sequence when re.match returns no match
RECURSIVE DigitRunAnywhere(_)
DigitRunAnywhere(s) ==
    IF s = <<>> THEN <<>>
    ELSE IF Head(s) \in Digits
         THEN LET rest == Tail(s)
              IN  <<Head(s)>> \o (IF rest # <<>> /\ Head(rest) \in Digits
                                  THEN DigitRunAnywhere(rest) ELSE <<>>)
         ELSE DigitRunAnywhere(Tail(s))

RECURSIVE re_match_digits(_)
re_match_digits(s) ==
    IF s = <<>> \/ Head(s) \notin Digits THEN <<>>
    ELSE <<Head(s)>> \o re_match_digits(Tail(s))

\* extract_number_from_filename: [found |-> FALSE] stands for None
NoNumber == [found |-> FALSE, value |-> <<>>]

extract_number_search(file_name) ==
    LET m == DigitRunAnywhere(SplitFirst(file_name))
    IN  IF m # <<>> THEN [found |-> TRUE, value |-> zfill(m, IdWidth)]
        ELSE NoNumber

extract_number_from_filename(file_name) ==
    LET m == re_match_digits(SplitFirst(file_name))
    IN  IF m # <<>> THEN [found |-> TRUE, value |-> zfill(m, IdWidth)]
        ELSE NoNumber

\* number in client_ids (None is a member of no set of strings)
NumberIn(number, ids) == number.found /\ number.value \in ids

---------------------------------------------------------------------------
(* read_client_ids_from_excel *)

\* df['ClientID'].astype(str).str.zfill(11)
NormalizeColumn(cells) == [i \in 1..Len(cells) |-> zfill(CellToStr(cells[i]), IdWidth)]

Range(s) == {s[i] : i \in 1..Len(s)}

\* result [df, ids, error]; the except branch returns an empty table and set
read_client_ids_from_excel(file) ==
    IF ~file.readable \/ ~file.hasClientID
    THEN [df |-> <<>>, ids |-> {}, error |-> TRUE]
    ELSE LET col == NormalizeColumn(file.cells)
         IN  [df |-> col, ids |-> Range(col), error |-> FALSE]

---------------------------------------------------------------------------
(* match_images_with_client_ids *)

ScanStart(ids) ==
    [matched |-> <<>>, mismatched |-> <<>>, copies |-> <<>>,
     count |-> [cid \in ids |-> 0]]

\* one iteration of the loop over os.listdir(images_dir)
ScanStep_no_tally(ids, entry, acc) ==
    IF entry.isfile
    THEN LET number == extract_number_from_filename(entry.name)
         IN  IF NumberIn(number, ids)
             THEN [acc EXCEPT !.matched = Append(@, entry.name),
                              !.copies = Append(@, entry.name)]
             ELSE [acc EXCEPT !.mismatched = Append(@, entry.name)]
    ELSE acc

ScanStep_no_isfile(ids, entry, acc) ==
    LET number == extract_number_from_filename(entry.name)
    IN  IF NumberIn(number, ids)
        THEN [acc EXCEPT !.matched = Append(@, entry.name),
                         !.copies = Append(@, entry.name),
                         !.count[number.value] = @ + 1]
        ELSE [acc EXCEPT !.mismatched = Append(@, entry.name)]

ScanStep(ids, entry, acc) ==
    IF entry.isfile
    THEN LET number == extract_number_from_filename(entry.name)
         IN  IF NumberIn(number, ids)
             THEN [acc EXCEPT !.matched = Append(@, entry.name),
                              !.copies = Append(@, entry.name),
                              !.count[number.value] = @ + 1]
             ELSE [acc EXCEPT !.mismatched = Append(@, entry.name)]
    ELSE acc

RECURSIVE ScanFrom(_, _, _, _)
ScanFrom(ids, listing, i, acc) ==
    IF i > Len(listing) THEN acc
    ELSE ScanFrom(ids, listing, i + 1, ScanStep(ids, listing[i], acc))

\* dir = [exists, listing]: what os.path.exists / os.listdir answer
match_images_with_client_ids(ids, dir) ==
    IF ~dir.exists
    THEN [matched |-> <<>>, mismatched |-> <<>>, copies |-> <<>>,
          count |-> EmptyDict, error |-> TRUE, mkdir |-> FALSE]
    ELSE LET r == ScanFrom(ids, dir.listing, 1, ScanStart(ids))
         IN  [matched |-> r.matched, mismatched |-> r.mismatched,
              copies |-> r.copies, count |-> r.count,
              error |-> FALSE, mkdir |-> TRUE]

\* shutil.copy into the output folder: same name overwrites
RECURSIVE CopyAll(_, _, _)
CopyAll(files, names, from) ==
    IF names = <<>> THEN files
    ELSE CopyAll({f \in files : f.name # Head(names)}
                     \cup {[name |-> Head(names), from |-> from]},
                 Tail(names), from)

CallRecord(ids, images_dir, output_folder, dir, r) ==
    [client_ids |-> ids, images_dir |-> images_dir,
     output_folder |-> output_folder, exists |-> dir.exists,
     listing |-> IF dir.exists THEN dir.listing ELSE <<>>,
     matched |-> r.matched, mismatched |-> r.mismatched,
     copies |-> r.copies, count |-> r.count]

---------------------------------------------------------------------------
(* process_images: pieces *)

\* excel_df.empty or not client_ids
NoValidClientIds_never(df, ids) == Len(df) < 0

NoValidClientIds(df, ids) == df = <<>> \/ ids = {}

\* {cid for cid in client_ids if matched_image_count[cid] == 0}
KeyErrorIn(ids, count) == \E cid \in ids : cid \notin DOMAIN count

UnmatchedIds_all(ids, count) == ids

UnmatchedIds(ids, count) == {cid \in ids : count[cid] = 0}

Truthy(path) == path # None /\ path # ""

\* if unmatched_client_ids and fallback_images_dir
RunFallback_ignoring_path(unmatched, fallback) == unmatched # {}

RunFallback(unmatched, fallback) == unmatched # {} /\ Truthy(fallback)

\* for cid, count in fallback_matched_image_count.items(): ... += count
MergeCounts_overwrite(count, fb) == fb

MergeCounts(count, fb) ==
    [cid \in DOMAIN count |->
        IF cid \in DOMAIN fb THEN count[cid] + fb[cid] ELSE count[cid]]

\* str.replace(old, new): every non-overlapping occurrence, left to right
StartsWith(s, p) == Len(s) >= Len(p) /\ SubSeq(s, 1, Len(p)) = p

RECURSIVE str_replace(_, _, _)
str_replace(s, old, new) ==
    IF s = <<>> THEN <<>>
    ELSE IF StartsWith(s, old)
         THEN new \o str_replace(SubSeq(s, Len(old) + 1, Len(s)), old, new)
         ELSE <<Head(s)>> \o str_replace(Tail(s), old, new)

DotXlsx == <<".", "x", "l", "s", "x">>
UpdatedDotXlsx == <<"_", "u", "p", "d", "a", "t", "e", "d">> \o DotXlsx

\* excel_path.replace('.xlsx', '_updated.xlsx')
UpdatedPath(path) == str_replace(path, DotXlsx, UpdatedDotXlsx)

\* update_excel_with_status: the two added columns, row by row
DictGet(count, key, default) == IF key \in DOMAIN count THEN count[key] ELSE default

ReportRows_nonnegative(df, count) ==
    [i \in 1..Len(df) |->
        [ClientID |-> df[i],
         count    |-> DictGet(count, df[i], 0),
         status   |-> IF DictGet(count, df[i], 0) >= 0
                      THEN "Matched" ELSE "Mismatched"]]

ReportRows(df, count) ==
    [i \in 1..Len(df) |->
        [ClientID |-> df[i],
         count    |-> DictGet(count, df[i], 0),
         status   |-> IF DictGet(count, df[i], 0) > 0
                      THEN "Matched" ELSE "Mismatched"]]

---------------------------------------------------------------------------
(* Inputs *)

IntCell(n) == [type |-> "int", int |-> n, text |-> <<>>]
TextCell(t) == [type |-> "text", int |-> 0, text |-> t]

LongId == <<"1", "2", "3", "4", "5", "6", "7", "8", "9", "0", "1", "2">>

CellPool == {IntCell(1), IntCell(22), TextCell(LongId)}

SeqsUpTo(S, n) == UNION {[1..k -> S] : k \in 0..n}

ExcelFiles ==
    {[readable |-> FALSE, hasClientID |-> FALSE, cells |-> <<>>],
     [readable |-> TRUE,  hasClientID |-> FALSE, cells |-> <<>>]}
    \cup {[readable |-> TRUE, hasClientID |-> TRUE, cells |-> c] :
             c \in SeqsUpTo(CellPool, MaxRows)}

ExcelPaths ==
    {<<"t">> \o DotXlsx,
     <<"t", ".", "x", "l", "s", "m">>}

File(n) == [name |-> n, isfile |-> TRUE]
SubDir(n) == [name |-> n, isfile |-> FALSE]

EntryPool ==
    {File(<<"1", "_", "a">>),
     File(<<"1", "b">>),
     File(<<"a", "1", "_", "2">>),
     File(LongId \o <<"_", "z">>),
     SubDir(<<"1", "_", "d">>)}

\* directory listings: distinct names, any enumeration order
Listings(n) ==
    {s \in SeqsUpTo(EntryPool, n) :
        \A i, j \in 1..Len(s) : i # j => s[i].name # s[j].name}

Dirs(n) ==
    {[exists |-> FALSE, listing |-> <<>>]}
    \cup {[exists |-> TRUE, listing |-> l] : l \in Listings(n)}

ImagesDir == "images"
OutputFolder == "out"
FallbackDir == "fallback"

NoTable == [some |-> FALSE, path |-> <<>>, rows |-> <<>>]
NoReturn == [some |-> FALSE, path |-> <<>>]

---------------------------------------------------------------------------
(* process_images as a state machine *)

Init ==
    /\ pc = "start"
    /\ excel_path \in ExcelPaths
    /\ excel_file \in ExcelFiles
    /\ fallback_images_dir \in {None, "", FallbackDir}
    /\ excel_df = <<>>
    /\ client_ids = {}
    /\ matched_images = <<>>
    /\ mismatched_images = <<>>
    /\ matched_image_count = EmptyDict
    /\ unmatched_client_ids = {}
    /\ calls = <<>>
    /\ out_created = FALSE
    /\ out_files = {}
    /\ written = NoTable
    /\ returned = NoReturn
    /\ raised = "none"
    /\ messages = <<>>

\* line 102
ReadExcel ==
    /\ pc = "start"
    /\ LET r == read_client_ids_from_excel(excel_file)
       IN  /\ excel_df' = r.df
           /\ client_ids' = r.ids
           /\ messages' = IF r.error
                          THEN Append(messages, "Error reading Excel file")
                          ELSE messages
    /\ pc' = "loaded"
    /\ UNCHANGED <<excel_path, excel_file, fallback_images_dir,
                   matched_images, mismatched_images, matched_image_count,
                   unmatched_client_ids, calls, out_created, out_files,
                   written, returned, raised>>

\* lines 103-105
AbortNoClientIds ==
    /\ pc = "loaded"
    /\ NoValidClientIds(excel_df, client_ids)
    /\ messages' = Append(messages, "No valid client IDs found.")
    /\ pc' = "returned"
    /\ UNCHANGED <<excel_path, excel_file, fallback_images_dir, excel_df,
                   client_ids, matched_images, mismatched_images,
                   matched_image_count, unmatched_client_ids, calls,
                   out_created, out_files, written, returned, raised>>

\* line 108
PrimaryScan ==
    /\ pc = "loaded"
    /\ ~NoValidClientIds(excel_df, client_ids)
    /\ \E dir \in Dirs(MaxEntries) :
         LET r == match_images_with_client_ids(client_ids, dir)
         IN  /\ matched_images' = r.matched
             /\ mismatched_images' = r.mismatched
             /\ matched_image_count' = r.count
             /\ calls' = Append(calls, CallRecord(client_ids, ImagesDir,
                                                  OutputFolder, dir, r))
             /\ out_created' = (out_created \/ r.mkdir)
             /\ out_files' = CopyAll(out_files, r.copies, ImagesDir)
             /\ messages' = IF r.error
                            THEN Append(messages, "directory does not exist")
                            ELSE messages
    /\ pc' = "scanned"
    /\ UNCHANGED <<excel_path, excel_file, fallback_images_dir, excel_df,
                   client_ids, unmatched_client_ids, written, returned,
                   raised>>

\* line 109, when a subscript matched_image_count[cid] has no key
UnmatchedKeyError ==
    /\ pc = "scanned"
    /\ KeyErrorIn(client_ids, matched_image_count)
    /\ raised' = "KeyError"
    /\ pc' = "raised"
    /\ UNCHANGED <<excel_path, excel_file, fallback_images_dir, excel_df,
                   client_ids, matched_images, mismatched_images,
                   matched_image_count, unmatched_client_ids, calls,
                   out_created, out_files, written, returned, messages>>

\* line 109
ComputeUnmatched ==
    /\ pc = "scanned"
    /\ ~KeyErrorIn(client_ids, matched_image_count)
    /\ unmatched_client_ids' = UnmatchedIds(client_ids, matched_image_count)
    /\ pc' = "decide"
    /\ UNCHANGED <<excel_path, excel_file, fallback_images_dir, excel_df,
                   client_ids, matched_images, mismatched_images,
                   matched_image_count, calls, out_created, out_files,
                   written, returned, raised, messages>>

\* lines 112-118
FallbackScan ==
    /\ pc = "decide"
    /\ RunFallback(unmatched_client_ids, fallback_images_dir)
    /\ \E dir \in Dirs(MaxFallbackEntries) :
         LET r == match_images_with_client_ids(unmatched_client_ids, dir)
         IN  /\ matched_image_count' = MergeCounts(matched_image_count, r.count)
             /\ calls' = Append(calls, CallRecord(unmatched_client_ids,
                                                  fallback_images_dir,
                                                  OutputFolder, dir, r))
             /\ out_created' = (out_created \/ r.mkdir)
             /\ out_files' = CopyAll(out_files, r.copies, fallback_images_dir)
             /\ messages' =
                  IF r.error
                  THEN messages \o <<"Processing fallback directory",
                                     "directory does not exist">>
                  ELSE Append(messages, "Processing fallback directory")
    /\ pc' = "report"
    /\ UNCHANGED <<excel_path, excel_file, fallback_images_dir, excel_df,
                   client_ids, matched_images, mismatched_images,
                   unmatched_client_ids, written, returned, raised>>

\* line 112, condition false
SkipFallback ==
    /\ pc = "decide"
    /\ ~RunFallback(unmatched_client_ids, fallback_images_dir)
    /\ pc' = "report"
    /\ UNCHANGED <<excel_path, excel_file, fallback_images_dir, excel_df,
                   client_ids, matched_images, mismatched_images,
                   matched_image_count, unmatched_client_ids, calls,
                   out_created, out_files, written, returned, raised,
                   messages>>

\* lines 121-128
UpdateExcel ==
    /\ pc = "report"
    /\ LET updated_excel_path == UpdatedPath(excel_path)
       IN  /\ written' = [some |-> TRUE, path |-> updated_excel_path,
                          rows |-> ReportRows(excel_df, matched_image_count)]
           /\ returned' = [some |-> TRUE, path |-> updated_excel_path]
    /\ messages' = Append(messages, "Updated Excel file saved")
    /\ pc' = "returned"
    /\ UNCHANGED <<excel_path, excel_file, fallback_images_dir, excel_df,
                   client_ids, matched_images, mismatched_images,
                   matched_image_count, unmatched_client_ids, calls,
                   out_created, out_files, raised>>

Next ==
    \/ ReadExcel
    \/ AbortNoClientIds
    \/ PrimaryScan
    \/ UnmatchedKeyError
    \/ ComputeUnmatched
    \/ FallbackScan
    \/ SkipFallback
    \/ UpdateExcel

Spec == Init /\ [][Next]_vars

---------------------------------------------------------------------------
(* Vocabulary of the properties, stated independently of the functions     *)
(* above                                                                   *)

\* the part of a name before its first underscore (the whole name if none)
PartBeforeUnderscore(name) ==
    LET n == CHOOSE n \in 0..Len(name) :
                 /\ \A i \in 1..n : name[i] # "_"
                 /\ n < Len(name) => name[n + 1] = "_"
    IN  SubSeq(name, 1, n)

\* the longest prefix of s made of decimal digits
LeadingDigits(s) ==
    LET n == CHOOSE n \in 0..Len(s) :
                 /\ \A i \in 1..n : s[i] \in Digits
                 /\ n < Len(s) => s[n + 1] \notin Digits
    IN  SubSeq(s, 1, n)

PadLeft(s, w) ==
    IF Len(s) >= w THEN s
    ELSE [i \in 1..w |-> IF i <= w - Len(s) THEN "0" ELSE s[i - (w - Len(s))]]

HasIdentifier(name) == LeadingDigits(PartBeforeUnderscore(name)) # <<>>

IdentifierOf(name) == PadLeft(LeadingDigits(PartBeforeUnderscore(name)), IdWidth)

\* the file's identifier is a member of the target set of the scan
InTargetSet(name, ids) == HasIdentifier(name) /\ IdentifierOf(name) \in ids

RECURSIVE SumOver(_, _)
SumOver(f, S) ==
    IF S = {} THEN 0
    ELSE LET x == CHOOSE x \in S : TRUE IN f[x] + SumOver(f, S \ {x})

Max(S) == CHOOSE x \in S : \A y \in S : x >= y

\* the path with _updated inserted before its extension
InsertBeforeExtension(path) ==
    LET dots == {i \in 1..Len(path) : path[i] = "."}
        upd  == <<"_", "u", "p", "d", "a", "t", "e", "d">>
    IN  IF dots = {} THEN path \o upd
        ELSE SubSeq(path, 1, Max(dots) - 1) \o upd
             \o SubSeq(path, Max(dots), Len(path))

PrimaryDone == Len(calls) >= 1
FallbackInvoked == Len(calls) >= 2

\* the table at excel_path gives no identifiers: unreadable, no ClientID
\* column, or no rows
NoIdentifiers ==
    \/ ~excel_file.readable
    \/ ~excel_file.hasClientID
    \/ excel_file.cells = <<>>

---------------------------------------------------------------------------
(* Properties *)

\* C1: when the primary images directory does not exist (table loaded and
\* non-empty), process_images reports the missing directory and aborts
\* early: no fallback scan, no output table, and no exception propagates
\* out of process_images.
C1_PrimaryMissingAbortsCleanly ==
    (PrimaryDone /\ ~calls[1].exists) =>
        /\ "directory does not exist" \in Range(messages)
        /\ Len(calls) = 1
        /\ ~written.some
        /\ raised = "none"

\* C2: in a scan of an existing directory a regular file is listed as
\* matched and copied to the output directory if and only if the leading
\* digit run of the part of its name before the first underscore, padded
\* with zeros to 11 characters, is in the target set of that scan; every
\* other regular file is listed as mismatched and is not copied.
C2_MatchedIffIdentifierInTargetSet ==
    \A k \in 1..Len(calls) :
        calls[k].exists =>
            \A i \in 1..Len(calls[k].listing) :
                LET e == calls[k].listing[i]
                    hit == InTargetSet(e.name, calls[k].client_ids)
                IN  e.isfile =>
                        /\ (e.name \in Range(calls[k].matched)) <=> hit
                        /\ (e.name \in Range(calls[k].copies)) <=> hit
                        /\ (e.name \in Range(calls[k].mismatched)) <=> ~hit
                        /\ hit => \E f \in out_files : f.name = e.name

C2_Witness ==
    \E k \in 1..Len(calls) :
        /\ calls[k].exists
        /\ calls[k].matched # <<>>
        /\ \E i \in 1..Len(calls[k].mismatched) :
               ~HasIdentifier(calls[k].mismatched[i])

\* C3: after a scan the sum of the per-identifier tallies equals the number
\* of matched files, and each identifier's tally equals the number of
\* matched files whose identifier is that identifier.
C3_TallyCountsMatchedFiles ==
    \A k \in 1..Len(calls) :
        LET c == calls[k]
        IN  /\ SumOver(c.count, DOMAIN c.count) = Len(c.matched)
            /\ \A cid \in DOMAIN c.count :
                   c.count[cid] =
                       Cardinality({i \in 1..Len(c.matched) :
                                       IdentifierOf(c.matched[i]) = cid})

C3_Witness ==
    \E k \in 1..Len(calls) :
        /\ Len(calls[k].matched) = 2
        /\ \E cid \in DOMAIN calls[k].count : calls[k].count[cid] = 2
        /\ \E cid \in DOMAIN calls[k].count : calls[k].count[cid] = 0

\* C4: in a scan every directory entry is in exactly one of three classes,
\* matched, mismatched or skipped non-regular entry, so the three counts add
\* up to the number of entries, and non-regular entries are in neither list.
C4_EntriesPartitioned ==
    \A k \in 1..Len(calls) :
        LET c == calls[k]
            skipped == {i \in 1..Len(c.listing) : ~c.listing[i].isfile}
        IN  calls[k].exists =>
            /\ Len(c.matched) + Len(c.mismatched) + Cardinality(skipped)
                   = Len(c.listing)
            /\ Range(c.matched) \cap Range(c.mismatched) = {}
            /\ \A i \in 1..Len(c.listing) :
                   IF c.listing[i].isfile
                   THEN c.listing[i].name \in
                            Range(c.matched) \cup Range(c.mismatched)
                   ELSE c.listing[i].name \notin
                            Range(c.matched) \cup Range(c.mismatched)

C4_Witness ==
    \E k \in 1..Len(calls) :
        /\ calls[k].exists
        /\ \E i \in 1..Len(calls[k].listing) :
               /\ ~calls[k].listing[i].isfile
               /\ InTargetSet(calls[k].listing[i].name, calls[k].client_ids)
        /\ calls[k].matched # <<>>

\* C5: an identifier whose tally is nonzero after the primary pass keeps
\* exactly that tally to the end of the run: the fallback pass never
\* increases it, whatever the fallback directory contains.
C5_FallbackKeepsNonzeroTallies ==
    PrimaryDone =>
        \A cid \in DOMAIN calls[1].count :
            calls[1].count[cid] > 0 =>
                /\ cid \in DOMAIN matched_image_count
                /\ matched_image_count[cid] = calls[1].count[cid]

C5_Witness ==
    /\ pc = "returned"
    /\ FallbackInvoked
    /\ calls[2].exists
    /\ \E i \in 1..Len(calls[2].listing) :
           /\ calls[2].listing[i].isfile
           /\ HasIdentifier(calls[2].listing[i].name)
           /\ IdentifierOf(calls[2].listing[i].name) \in DOMAIN calls[1].count
           /\ calls[1].count[IdentifierOf(calls[2].listing[i].name)] > 0

\* C6: when the fallback scan finds that the fallback directory does not
\* exist, process_images goes on: it raises nothing, the final tally is the
\* primary-pass tally for every identifier, and the updated table is written
\* and its path returned.
C6_MissingFallbackIsNonFatal ==
    (FallbackInvoked /\ ~calls[2].exists) =>
        /\ raised = "none"
        /\ pc \in {"report", "returned"}
        /\ matched_image_count = calls[1].count
        /\ pc = "returned" =>
               /\ written.some
               /\ returned.some
               /\ returned.path = written.path

C6_Witness ==
    /\ pc = "returned"
    /\ FallbackInvoked
    /\ ~calls[2].exists
    /\ written.some
    /\ \E cid \in DOMAIN calls[1].count : calls[1].count[cid] > 0

\* C7: in the written report every row of the table has a count equal to
\* the final tally of the row's identifier (0 when the identifier is no key
\* of the tally) and the status "Matched" exactly when the count is greater
\* than 0, "Mismatched" otherwise; rows with the same identifier have the
\* same count and status.
C7_ReportRowsFollowTally ==
    written.some =>
        /\ Len(written.rows) = Len(excel_file.cells)
        /\ \A i \in 1..Len(written.rows) :
               LET row == written.rows[i]
                   id == PadLeft(CellToStr(excel_file.cells[i]), IdWidth)
               IN  /\ row.ClientID = id
                   /\ row.count = IF id \in DOMAIN matched_image_count
                                  THEN matched_image_count[id] ELSE 0
                   /\ row.status \in {"Matched", "Mismatched"}
                   /\ row.status = "Matched" <=> row.count > 0
        /\ \A i, j \in 1..Len(written.rows) :
               written.rows[i].ClientID = written.rows[j].ClientID =>
                   /\ written.rows[i].count = written.rows[j].count
                   /\ written.rows[i].status = written.rows[j].status

C7_Witness ==
    /\ written.some
    /\ \E i, j \in 1..Len(written.rows) :
           /\ i # j
           /\ excel_file.cells[i] = excel_file.cells[j]
           /\ written.rows[i].count > 0
           /\ written.rows[i].status = "Matched"

\* C8: the report is persisted to a path derived from the input path by
\* inserting _updated before the extension; the output path is never the
\* input path, so the input table is never overwritten by the report.
C8_ReportPathIsNewPath ==
    written.some =>
        /\ written.path = InsertBeforeExtension(excel_path)
        /\ written.path # excel_path

\* C9: when the table cannot be loaded, lacks the ClientID column or gives
\* an empty identifier set, process_images stops before any directory scan:
\* no output directory is created, no file is copied, no table is written,
\* no path is returned.
C9_NoIdentifiersNoEffects ==
    NoIdentifiers =>
        /\ calls = <<>>
        /\ ~out_created
        /\ out_files = {}
        /\ ~written.some
        /\ ~returned.some
        /\ raised = "none"
        /\ pc \in {"start", "loaded", "returned"}

C9_Witness ==
    /\ NoIdentifiers
    /\ excel_file.hasClientID
    /\ pc = "returned"
    /\ "No valid client IDs found." \in Range(messages)

\* C10: the second scan is invoked if and only if some identifier has a
\* primary-pass tally of exactly zero and a non-empty fallback path was
\* supplied; when invoked its target set is exactly the zero-tally
\* identifiers and it writes to the same output directory; when not invoked
\* the final tally is the primary tally and nothing of the fallback
\* directory is read or copied.
C10_FallbackExactlyWhenNeeded ==
    /\ pc \in {"report", "returned", "raised"} =>
           (FallbackInvoked <=>
               /\ PrimaryDone
               /\ \E cid \in DOMAIN calls[1].count : calls[1].count[cid] = 0
               /\ fallback_images_dir \notin {None, ""})
    /\ FallbackInvoked =>
           /\ calls[2].client_ids =
                  {cid \in DOMAIN calls[1].count : calls[1].count[cid] = 0}
           /\ calls[2].images_dir = fallback_images_dir
           /\ calls[2].output_folder = calls[1].output_folder
    /\ (PrimaryDone /\ ~FallbackInvoked) =>
           /\ matched_image_count = calls[1].count
           /\ \A f \in out_files : f.from = calls[1].images_dir

C10_Witness ==
    /\ pc = "returned"
    /\ FallbackInvoked
    /\ calls[2].exists
    /\ calls[2].matched # <<>>
    /\ calls[2].client_ids # calls[1].client_ids
    /\ \E f \in out_files : f.from = fallback_images_dir

====
